---- MODULE Spec2Model ----
(***************************************************************************)
(* Model of liger_galil_controller.py: the GalilDMC link (connect, banner  *)
(* drain, send_command, read_response, _close), the three axis operations  *)
(* (test_stepper_motor, disable_stepper_motor, test_switch) and the        *)
(* dispatcher of __main__.                                                  *)
(*                                                                         *)
(* Text is a sequence of one-character strings, so that strip(), endswith  *)
(* and the ASCII decode are computed character by character.  The token    *)
(* NonAscii stands for one received byte >= 0x80.                           *)
(***************************************************************************)
EXTENDS Integers, Sequences, FiniteSets, TLC

(* ------------------------------ bounds -------------------------------- *)

\* Largest number of bytes one read_response accumulates in the model.
MaxData == 4
\* Largest number of TS queries the monitor loop sends in the model.
MaxPolls == 2
\* Largest number of calls the API client makes in the model.
MaxCalls == 2
\* Largest status register value drawn for the decoder.
MaxReg == 63
\* Largest travel, in degrees either way, drawn for the unit converter.
MaxDegrees == 90
\* Largest microstepping divisor drawn for the unit converter.
MaxMicrosteps == 11
\* Largest number of banner bytes the device sends on connection.
MaxBanner == 2
\* Clock ticks in one read timeout.
TimeoutTicks == 2

(* ------------------------- program constants -------------------------- *)

RecvSize == 1024
STEPS_PER_REV_FULL == 200
DegreesPerRev == 360

(* ------------------------------- text --------------------------------- *)

NonAscii == "<80>"
Terminator == ":"
CR == "\r"

\* The bytes the peer sends in the model.
RxBytes == {"O", "K", "4", CR, Terminator, NonAscii}

\* Characters str.strip() removes.  Python also strips \v and 0x1c-0x1f,
\* which no text of the model contains.
Whitespace == {" ", "\t", "\n", "\r", "\f"}

DigitChars == <<"0", "1", "2", "3", "4", "5", "6", "7", "8", "9">>

SeqsUpTo(S, n) == UNION {[1..k -> S] : k \in 0..n}

Min(a, b) == IF a <= b THEN a ELSE b

RECURSIVE LStrip(_)
LStrip(s) == IF s # <<>> /\ Head(s) \in Whitespace THEN LStrip(Tail(s)) ELSE s

RECURSIVE RStrip(_)
RStrip(s) ==
    IF s # <<>> /\ s[Len(s)] \in Whitespace
    THEN RStrip(SubSeq(s, 1, Len(s) - 1))
    ELSE s

\* str.strip()
Strip(s) == RStrip(LStrip(s))

\* bytes.decode('ascii', errors='ignore'): bytes >= 0x80 are dropped.
DecodeAscii(b) == SelectSeq(b, LAMBDA c : c # NonAscii)

\* str.endswith(':')
EndsWithTerminator(s) == s # <<>> /\ s[Len(s)] = Terminator

\* Variant: the loop stops only on a chunk that ends with the terminator.
HasTerminator_AtEnd(chunk) == chunk # <<>> /\ chunk[Len(chunk)] = Terminator

\* b':' in chunk
HasTerminator(chunk) == \E i \in 1..Len(chunk) : chunk[i] = Terminator

\* Variant: the text is not trimmed again after the terminator is removed.
DecodeResponse_NoRetrim(data) ==
    LET decoded_response == Strip(DecodeAscii(data))
    IN  IF EndsWithTerminator(decoded_response)
        THEN SubSeq(decoded_response, 1, Len(decoded_response) - 1)
        ELSE decoded_response

RECURSIVE RStripTerminators(_)
RStripTerminators(s) ==
    IF EndsWithTerminator(s)
    THEN RStripTerminators(Strip(SubSeq(s, 1, Len(s) - 1)))
    ELSE s

\* Variant: every trailing terminator is removed, not just one.
DecodeResponse_StripAll(data) == RStripTerminators(Strip(DecodeAscii(data)))

\* Lines 67-71 of read_response: what is returned for the accumulated data.
DecodeResponse(data) ==
    LET decoded_response == Strip(DecodeAscii(data))
    IN  IF EndsWithTerminator(decoded_response)
        THEN Strip(SubSeq(decoded_response, 1, Len(decoded_response) - 1))
        ELSE decoded_response

(* --------------------------- number <-> text -------------------------- *)

RECURSIVE NatText(_)
NatText(n) ==
    IF n < 10 THEN <<DigitChars[n + 1]>>
    ELSE NatText(n \div 10) \o <<DigitChars[(n % 10) + 1]>>

\* f"{n}" for an int n.
IntText(n) == IF n < 0 THEN <<"-">> \o NatText(-n) ELSE NatText(n)

IsDigit(c) == \E i \in 1..10 : DigitChars[i] = c

DigitValue(c) == (CHOOSE i \in 1..10 : DigitChars[i] = c) - 1

RECURSIVE NatValue(_)
NatValue(s) ==
    IF s = <<>> THEN 0
    ELSE 10 * NatValue(SubSeq(s, 1, Len(s) - 1)) + DigitValue(s[Len(s)])

\* float(response) succeeds.  Over the characters of the model (digits,
\* letters, CR, ':') a text parses iff it is a non-empty run of digits; any
\* other character, or the empty text, raises ValueError.
IsNumeric(s) == s # <<>> /\ \A i \in 1..Len(s) : IsDigit(s[i])

\* int(float(response)) for a text that parses.
IntOfFloat(s) == NatValue(s)

(* ---------------------------- UnitConverter --------------------------- *)

\* Python computes the counts in IEEE double precision.  A double is held
\* here as an integer mantissa of at most MantissaBits bits and a binary
\* exponent; integers wider than the machine word are sequences of limbs,
\* least significant first.

MantissaBits == 53
LimbBits == 15
Base == 2 ^ LimbBits
\* Fraction bits kept by the division before it is rounded to a double.
DivisionBits == 62

RECURSIVE BigFromNat(_)
BigFromNat(n) == IF n = 0 THEN <<>> ELSE <<n % Base>> \o BigFromNat(n \div Base)

RECURSIVE BigToNat(_)
BigToNat(x) == IF x = <<>> THEN 0 ELSE Head(x) + Base * BigToNat(Tail(x))

RECURSIVE BigNorm(_)
BigNorm(x) ==
    IF x # <<>> /\ x[Len(x)] = 0 THEN BigNorm(SubSeq(x, 1, Len(x) - 1)) ELSE x

\* x * k + c for 0 <= k <= Base, 0 <= c < Base.
RECURSIVE BigMulAdd(_, _, _)
BigMulAdd(x, k, c) ==
    IF x = <<>> THEN (IF c = 0 THEN <<>> ELSE <<c>>)
    ELSE LET t == Head(x) * k + c
         IN  <<t % Base>> \o BigMulAdd(Tail(x), k, t \div Base)

\* Quotient and remainder of x by k, 0 < k <= Base.
RECURSIVE BigDivRem(_, _)
BigDivRem(x, k) ==
    IF x = <<>> THEN [q |-> <<>>, r |-> 0]
    ELSE LET hi == BigDivRem(Tail(x), k)
             t  == hi.r * Base + Head(x)
         IN  [q |-> <<t \div k>> \o hi.q, r |-> t % k]

RECURSIVE NatBitLen(_)
NatBitLen(n) == IF n = 0 THEN 0 ELSE 1 + NatBitLen(n \div 2)

BigBitLen(x) ==
    IF x = <<>> THEN 0 ELSE LimbBits * (Len(x) - 1) + NatBitLen(x[Len(x)])

BigBit(x, i) ==
    IF (i \div LimbBits) + 1 > Len(x) THEN 0
    ELSE (x[(i \div LimbBits) + 1] \div (2 ^ (i % LimbBits))) % 2

BigShiftLeft(x, n) ==
    BigMulAdd([i \in 1..(n \div LimbBits) |-> 0] \o x, 2 ^ (n % LimbBits), 0)

BigShiftRight(x, n) ==
    IF n \div LimbBits >= Len(x) THEN <<>>
    ELSE BigNorm(BigDivRem(SubSeq(x, (n \div LimbBits) + 1, Len(x)),
                           2 ^ (n % LimbBits)).q)

\* x (with a non-zero tail below it when sticky) rounded to MantissaBits
\* bits, ties to even: the mantissa m and the bits s shifted out.
RoundToDouble(x, sticky) ==
    LET len == BigBitLen(x)
        s   == len - MantissaBits
    IN  IF s <= 0 THEN [m |-> x, s |-> 0]
        ELSE LET q    == BigShiftRight(x, s)
                 half == BigBit(x, s - 1) = 1
                 rest == sticky \/ \E i \in 0..(s - 2) : BigBit(x, i) = 1
                 up   == half /\ (rest \/ BigBit(q, 0) = 1)
             IN  [m |-> IF up THEN BigMulAdd(q, 1, 1) ELSE q, s |-> s]

\* steps_per_degree = (STEPS_PER_REV_FULL * microsteps) / 360.0: the double
\* m * 2^-e nearest to the quotient.
StepsPerDegree(microsteps) ==
    LET n == BigShiftLeft(BigFromNat(STEPS_PER_REV_FULL * microsteps),
                          DivisionBits)
        d == BigDivRem(n, DegreesPerRev)
        r == RoundToDouble(BigNorm(d.q), d.r # 0)
    IN  [m |-> r.m, e |-> DivisionBits - r.s]

Abs(n) == IF n < 0 THEN -n ELSE n

\* int(value * steps_per_degree): the double product, rounded, then
\* truncated toward zero.
ToCounts(value, microsteps) ==
    LET spd == StepsPerDegree(microsteps)
        p   == RoundToDouble(BigMulAdd(spd.m, Abs(value), 0), FALSE)
        sh  == spd.e - p.s
        v   == BigToNat(IF sh >= 0 THEN BigShiftRight(p.m, sh)
                        ELSE BigShiftLeft(p.m, -sh))
    IN  IF value < 0 THEN -v ELSE v

(* ---------------------------- AxisSequencer --------------------------- *)

Axes == {"A", "H"}

\* The keyword defaults of test_stepper_motor, which __main__ relies on.
DefaultConfig ==
    [degrees |-> 720, microsteps |-> 1, speed_deg |-> 180, accel_deg |-> 360,
     active_high |-> TRUE, smoothing |-> 2]

\* Arguments test_stepper_motor is called with in the model.
MoveConfigs ==
    {DefaultConfig,
     [degrees |-> -100, microsteps |-> 2, speed_deg |-> 45, accel_deg |-> 100,
      active_high |-> FALSE, smoothing |-> 4]}

\* Arguments test_stepper_motor is called with when the unit conversion is
\* examined: every travel and microstepping divisor within the bounds.
ConverterConfigs ==
    {[degrees |-> d, microsteps |-> m, speed_deg |-> Abs(d),
      accel_deg |-> Abs(d) + 1, active_high |-> TRUE, smoothing |-> 2] :
        d \in (-MaxDegrees)..MaxDegrees, m \in 1..MaxMicrosteps}

\* Lines 103-105: the three conversions made on entry to test_stepper_motor.
Counts(cfg) ==
    [counts       |-> ToCounts(cfg.degrees, cfg.microsteps),
     speed_counts |-> ToCounts(cfg.speed_deg, cfg.microsteps),
     accel_counts |-> ToCounts(cfg.accel_deg, cfg.microsteps)]

\* Before test_stepper_motor is entered.
NoCounts == [counts |-> 0, speed_counts |-> 0, accel_counts |-> 0]

MtValue(cfg) == IF cfg.active_high THEN -2 ELSE 2

\* Variant: the move is begun before the relative target is programmed.
MoveCommands_BeginBeforeTarget(ax, cfg, cnt) ==
    LET counts       == cnt.counts
        speed_counts == cnt.speed_counts
        accel_counts == cnt.accel_counts
    IN  << <<"S", "T", " ", ax, ";">>,
           <<"M", "T", ax, "=">> \o IntText(MtValue(cfg)) \o <<";">>,
           <<"K", "S", ax, "=">> \o IntText(cfg.smoothing) \o <<";">>,
           <<"S", "H", " ", ax, ";">>,
           <<"S", "P", ax, "=">> \o IntText(speed_counts) \o <<";">>,
           <<"A", "C", ax, "=">> \o IntText(accel_counts),
           <<"D", "C", ax, "=">> \o IntText(accel_counts),
           <<"B", "G", " ", ax, ";">>,
           <<"P", "R", ax, "=">> \o IntText(counts) \o <<";">>,
           <<"M", "C", " ", ax, ";">> >>

\* The ten command strings of test_stepper_motor, in program order.
MoveCommands(ax, cfg, cnt) ==
    LET counts       == cnt.counts
        speed_counts == cnt.speed_counts
        accel_counts == cnt.accel_counts
    IN  << <<"S", "T", " ", ax, ";">>,
           <<"M", "T", ax, "=">> \o IntText(MtValue(cfg)) \o <<";">>,
           <<"K", "S", ax, "=">> \o IntText(cfg.smoothing) \o <<";">>,
           <<"S", "H", " ", ax, ";">>,
           <<"S", "P", ax, "=">> \o IntText(speed_counts) \o <<";">>,
           <<"A", "C", ax, "=">> \o IntText(accel_counts),
           <<"D", "C", ax, "=">> \o IntText(accel_counts),
           <<"P", "R", ax, "=">> \o IntText(counts) \o <<";">>,
           <<"B", "G", " ", ax, ";">>,
           <<"M", "C", " ", ax, ";">> >>

\* Variant: the axis is stopped instead of switched off.
DisableCommand_Stop(ax) == <<"S", "T", " ", ax, ";">>

\* The command of disable_stepper_motor.
DisableCommand(ax) == <<"M", "O", " ", ax, ";">>

\* The query of test_switch.
SwitchCommand(ax) == <<"T", "S", " ", ax>>

\* cmd_str = command.strip() + '\r'; the text is ASCII, so encode() keeps it.
WireBytes(command) == Strip(command) \o <<CR>>

(* ---------------------------- StatusDecoder --------------------------- *)

\* (value >> k) & 1 for value >= 0.
Bit(value, k) == (value \div (2 ^ k)) % 2

\* Variant: the reverse limit is read from the forward limit's bit.
RevStatus_Bit3(value) == IF Bit(value, 3) = 1 THEN "OFF" ELSE "ON"

HomeStatus(value) == IF Bit(value, 1) = 1 THEN "OFF" ELSE "ON"
RevStatus(value)  == IF Bit(value, 2) = 1 THEN "OFF" ELSE "ON"
FwdStatus(value)  == IF Bit(value, 3) = 1 THEN "OFF" ELSE "ON"

NoLine == [kind |-> "none", value |-> 0, home |-> "", fwd |-> "", rev |-> ""]

\* The body of the monitor loop after the exchange: the line it prints.
StatusLine(resp) ==
    IF IsNumeric(resp)
    THEN LET value == IntOfFloat(resp)
         IN  [kind |-> "status", value |-> value, home |-> HomeStatus(value),
              fwd |-> FwdStatus(value), rev |-> RevStatus(value)]
    ELSE [kind |-> "invalid", value |-> 0, home |-> "", fwd |-> "", rev |-> ""]

(* ------------------------------- state -------------------------------- *)

VARIABLES
    mode,       \* what is run: "switch", "stepper", "disable" (the modes of
                \* __main__), or "client" (a caller using the GalilDMC
                \* methods directly)
    axis,       \* the axis letter
    cfg,        \* the arguments of test_stepper_motor
    counts,     \* its locals counts, speed_counts, accel_counts
    banner,     \* banner bytes the device has sent and the host has not read
    waited,     \* ticks the current read_response has spent blocked in recv()
    recvs,      \* recv() calls the current read_response has made
    pc,         \* where the program is
    step,       \* index of the next command of test_stepper_motor
    calls,      \* method calls made so far by the client
    request,    \* the command of the client's current send_command
    sock,       \* self.sock: "None" or "socket"
    data,       \* read_response's accumulated bytes
    response,   \* what the last send_command returned, NoResponse if nothing
    err,        \* the exception that ended the last call, "none" if none
    line,       \* the last line the monitor loop printed
    last_recv,  \* what the last recv() of the current exchange did: "none"
                \* (not called yet), "bytes", "eof", "timeout" or "error"
    discarded,  \* how many bytes read_response held when it last raised
    log         \* socket operations so far: transmissions, complete
                \* responses, closes

vars == <<mode, axis, cfg, counts, banner, waited, recvs, pc, step, calls,
          request, sock, data, response,
          err, line, last_recv, discarded, log>>

Modes == {"switch", "stepper", "disable", "client"}

NoResponse == <<"<none>">>

\* Commands the client passes to send_command.
ClientCommands == {<<"T", "P">>, <<" ", "M", "G", " ">>}

\* A byte of the device's banner, told apart from the bytes of responses.
BannerByte == "B"

\* The banners the device may send on connection.
Banners == SeqsUpTo({BannerByte}, MaxBanner)

\* Variant: no timeout is set on the socket, so a recv() may block longer.
RecvWaits_NoTimeout == 0..(TimeoutTicks + 1)

\* Ticks a recv() that returns before its timeout can take.
RecvWaits == 0..(TimeoutTicks - 1)

clock == <<waited, recvs>>

Tx(bytes)     == [t |-> "tx", bytes |-> bytes, raised |-> FALSE]
Rx            == [t |-> "rx", bytes |-> <<>>, raised |-> FALSE]
Closed(raised) == [t |-> "close", bytes |-> <<>>, raised |-> raised]

TxCount(lg) == Len(SelectSeq(lg, LAMBDA e : e.t = "tx"))

\* The non-empty chunks recv(1024) can return while read_response holds d.
Chunks(d) == SeqsUpTo(RxBytes, Min(RecvSize, MaxData - Len(d))) \ {<<>>}

\* What one recv(1024) of read_response can return while it holds d and the
\* unread banner is b: the bytes arrive in the order sent, so banner bytes
\* come first and bytes of the response only after the last of them.
Arrivals(d, b) ==
    LET room == Min(RecvSize, MaxData - Len(d))
    IN  IF b = <<>>
        THEN {[chunk |-> c, banner |-> b] : c \in Chunks(d)}
        ELSE UNION {
               {[chunk |-> SubSeq(b, 1, j) \o rest,
                 banner |-> SubSeq(b, j + 1, Len(b))] :
                  rest \in IF j = Len(b)
                           THEN SeqsUpTo(RxBytes, room - j) ELSE {<<>>}} :
               j \in 0..Min(Len(b), room)}
             \ {[chunk |-> <<>>, banner |-> b]}

\* The argument of the send_command being executed.
CurrentCommand ==
    CASE mode = "stepper" -> MoveCommands(axis, cfg, counts)[step]
      [] mode = "disable" -> DisableCommand(axis)
      [] mode = "switch"  -> SwitchCommand(axis)
      [] OTHER            -> request

Init ==
    /\ mode \in Modes
    /\ axis \in IF mode = "client" THEN {"A"} ELSE Axes
    /\ cfg \in IF mode = "stepper" THEN MoveConfigs ELSE {DefaultConfig}
    /\ counts = NoCounts
    /\ banner = <<>>
    /\ waited = 0
    /\ recvs = 0
    /\ pc = "construct"
    /\ step = 1
    /\ calls = 0
    /\ request = <<>>
    /\ sock = "None"
    /\ data = <<>>
    /\ response = NoResponse
    /\ err = "none"
    /\ line = NoLine
    /\ last_recv = "none"
    /\ discarded = 0
    /\ log = <<>>

(* -------------------------------- Link -------------------------------- *)

\* Variant: the handle is reset after close() only if close() returned.
CloseEffect_NoFinally(s, lg, raised) ==
    IF s # "None"
    THEN [sock |-> IF raised THEN s ELSE "None",
          log |-> Append(lg, Closed(raised))]
    ELSE [sock |-> s, log |-> lg]

\* _close(): the socket's close() is called only if the handle is present;
\* whether or not it raises, the handle is reset.
CloseEffect(s, lg, raised) ==
    IF s # "None"
    THEN [sock |-> "None", log |-> Append(lg, Closed(raised))]
    ELSE [sock |-> s, log |-> lg]

\* Variant: the operation swallows the exception of a command and goes on.
PcAfterError_Continues == IF mode = "client" THEN "idle" ELSE "call"

\* Where an exception raised inside an operation ends up: __main__ prints it
\* and the program ends; the client catches it and goes on.
PcAfterError == IF mode = "client" THEN "idle" ELSE "done"

\* Where control goes once the constructor has returned.
PcAfterConnect == IF mode = "client" THEN "idle" ELSE "call"

\* __init__ and the first half of _connect: socket(), settimeout(), connect().
Connect ==
    /\ pc = "construct"
    /\ \E outcome \in {"socket_raises", "connect_raises", "connected"},
          raised \in BOOLEAN :
         \/ /\ outcome = "connected"
            /\ ~raised
            /\ sock' = "socket"
            /\ banner' \in Banners
            /\ pc' = "banner"
            /\ UNCHANGED <<err, log>>
         \/ /\ outcome # "connected"
            /\ UNCHANGED banner
            /\ LET opened == IF outcome = "socket_raises" THEN sock ELSE "socket"
                   c == CloseEffect(opened, log, raised)
               IN  /\ sock' = c.sock
                   /\ log' = c.log
            /\ err' = "ConnectionFailed"
            /\ pc' = PcAfterError
    /\ UNCHANGED <<mode, axis, cfg, counts, waited, recvs, step, calls, request,
                   data, response, line, last_recv, discarded>>

\* Variant: an exception of the drain is re-raised without _close().
DrainBanner_NoCleanup ==
    /\ pc = "banner"
    /\ \E outcome \in {"bytes", "eof", "timeout", "error"}, raised \in BOOLEAN :
         \/ /\ outcome = "bytes"
            /\ ~raised
            /\ \E k \in 1..Min(RecvSize, Len(banner)) :
                 banner' = SubSeq(banner, k + 1, Len(banner))
            /\ pc' = PcAfterConnect
            /\ counts' = IF mode = "stepper" THEN Counts(cfg) ELSE counts
            /\ UNCHANGED <<sock, err, log>>
         \/ /\ outcome \in {"eof", "timeout"}
            /\ outcome = "eof" => banner = <<>>
            /\ ~raised
            /\ pc' = PcAfterConnect
            /\ counts' = IF mode = "stepper" THEN Counts(cfg) ELSE counts
            /\ UNCHANGED <<sock, err, log, banner>>
         \/ /\ outcome = "error"
            /\ ~raised
            /\ UNCHANGED <<sock, log>>
            /\ err' = "ConnectionFailed"
            /\ pc' = PcAfterError
            /\ UNCHANGED <<counts, banner>>
    /\ UNCHANGED <<mode, axis, cfg, waited, recvs, step, calls, request, data,
                   response, line, last_recv, discarded>>

\* The banner drain of _connect: one recv(1024) under a 0.5 s timeout.  It
\* returns the banner bytes that have arrived by then ("bytes": some or all
\* of them), or nothing because the peer has closed having sent none
\* ("eof"), or it times out because none has arrived yet; what it returns
\* is dropped.  Any other
\* exception closes the link and fails the construction.  The constructor
\* then returns and __main__ enters the operation; test_stepper_motor first
\* computes its counts.
DrainBanner ==
    /\ pc = "banner"
    /\ \E outcome \in {"bytes", "eof", "timeout", "error"}, raised \in BOOLEAN :
         \/ /\ outcome = "bytes"
            /\ ~raised
            /\ \E k \in 1..Min(RecvSize, Len(banner)) :
                 banner' = SubSeq(banner, k + 1, Len(banner))
            /\ pc' = PcAfterConnect
            /\ counts' = IF mode = "stepper" THEN Counts(cfg) ELSE counts
            /\ UNCHANGED <<sock, err, log>>
         \/ /\ outcome \in {"eof", "timeout"}
            /\ outcome = "eof" => banner = <<>>
            /\ ~raised
            /\ pc' = PcAfterConnect
            /\ counts' = IF mode = "stepper" THEN Counts(cfg) ELSE counts
            /\ UNCHANGED <<sock, err, log, banner>>
         \/ /\ outcome = "error"
            /\ LET c == CloseEffect(sock, log, raised)
               IN  /\ sock' = c.sock
                   /\ log' = c.log
            /\ err' = "ConnectionFailed"
            /\ pc' = PcAfterError
            /\ UNCHANGED <<counts, banner>>
    /\ UNCHANGED <<mode, axis, cfg, waited, recvs, step, calls, request, data,
                   response, line, last_recv, discarded>>

\* Variant: the handle is not tested, so the call fails on None.sendall.
SendNotConnected_NoCheck ==
    /\ pc = "call"
    /\ sock = "None"
    /\ err' = "AttributeError"
    /\ pc' = PcAfterError
    /\ UNCHANGED <<mode, axis, cfg, counts, banner, waited, recvs,
                   step, calls, request, sock, data, response,
                   line, last_recv, discarded, log>>

\* send_command on an absent handle.
SendNotConnected ==
    /\ pc = "call"
    /\ sock = "None"
    /\ err' = "NotConnected"
    /\ pc' = PcAfterError
    /\ UNCHANGED <<mode, axis, cfg, counts, banner, waited, recvs,
                   step, calls, request, sock, data, response,
                   line, last_recv, discarded, log>>

\* Variant: send_command returns after sendall() without reading a response.
SendAll_NoRead ==
    /\ pc = "call"
    /\ sock # "None"
    /\ \E ok \in BOOLEAN :
         IF ok
         THEN /\ log' = Append(log, Tx(WireBytes(CurrentCommand)))
              /\ data' = <<>>
              /\ response' = NoResponse
              /\ pc' = IF mode = "client" THEN "idle" ELSE "close"
              /\ UNCHANGED err
         ELSE /\ err' = "TransportError"
              /\ pc' = PcAfterError
              /\ UNCHANGED <<log, data, response>>
    /\ last_recv' = "none"
    /\ discarded' = 0
    /\ UNCHANGED <<mode, axis, cfg, counts, banner, waited, recvs,
                   step, calls, request, sock, line>>

\* send_command on a present handle: sendall() of the command, then
\* read_response() starts with an empty buffer.
SendAll ==
    /\ pc = "call"
    /\ sock # "None"
    /\ \E ok \in BOOLEAN :
         IF ok
         THEN /\ log' = Append(log, Tx(WireBytes(CurrentCommand)))
              /\ data' = <<>>
              /\ response' = NoResponse
              /\ pc' = "recv"
              /\ UNCHANGED err
         ELSE /\ err' = "TransportError"
              /\ pc' = PcAfterError
              /\ UNCHANGED <<log, data, response>>
    /\ last_recv' = "none"
    /\ discarded' = 0
    /\ UNCHANGED <<mode, axis, cfg, counts, banner, waited, recvs,
                   step, calls, request, sock, line>>

\* Variant: test_stepper_motor returns without calling _close().
PcAfterResponse_NoClose ==
    CASE mode = "stepper" -> IF step < Len(MoveCommands(axis, cfg, counts))
                             THEN "call" ELSE "done"
      [] mode = "disable" -> "close"
      [] mode = "switch"  -> "print"
      [] OTHER            -> "idle"

\* Where the caller of send_command goes on once it has returned.
PcAfterResponse ==
    CASE mode = "stepper" -> IF step < Len(MoveCommands(axis, cfg, counts))
                             THEN "call" ELSE "close"
      [] mode = "disable" -> "close"
      [] mode = "switch"  -> "print"
      [] OTHER            -> "idle"

\* The caller binds what send_command returns (test_switch, the client); the
\* stepper and disable sequences drop it.
KeepsResponse == mode \in {"switch", "client"}

\* One recv(1024) of read_response's loop that returns bytes.  When the chunk
\* holds the terminator the loop breaks and read_response returns; data then
\* keeps the buffer the returned response was decoded from.
Recv ==
    /\ pc = "recv"
    /\ \E r \in Arrivals(data, banner) :
        LET chunk == r.chunk IN
         /\ banner' = r.banner
         /\ IF HasTerminator(chunk)
            THEN /\ data' = IF KeepsResponse THEN data \o chunk ELSE <<>>
                 /\ response' = IF KeepsResponse
                                THEN DecodeResponse(data \o chunk)
                                ELSE NoResponse
                 /\ log' = Append(log, Rx)
                 /\ pc' = PcAfterResponse
                 /\ step' = IF mode = "stepper" /\ PcAfterResponse = "call"
                            THEN step + 1 ELSE step
            ELSE /\ data' = data \o chunk
                 /\ UNCHANGED <<response, log, pc, step>>
    /\ last_recv' = "bytes"
    /\ UNCHANGED <<mode, axis, cfg, counts, calls, request, sock, err, line,
                   discarded>>

\* Variant: a timeout after some bytes ends the response instead of raising.
RecvFails_TimeoutReturnsPartial ==
    /\ pc = "recv"
    /\ \E outcome \in {"eof", "timeout", "error"} :
         /\ last_recv' = outcome
         /\ IF outcome = "timeout" /\ data # <<>>
            THEN /\ response' = DecodeResponse(data)
                 /\ pc' = PcAfterResponse
                 /\ UNCHANGED <<err, data, discarded>>
            ELSE /\ err' = CASE outcome = "eof"     -> "RemoteClosed"
                             [] outcome = "timeout" -> "Timeout"
                             [] OTHER               -> "TransportError"
                 /\ discarded' = Len(data)
                 /\ data' = <<>>
                 /\ pc' = PcAfterError
                 /\ UNCHANGED response
    /\ UNCHANGED <<mode, axis, cfg, counts, banner, step, calls, request, sock,
                   line, log>>

\* Variant: a zero-length read leaves the loop (break) instead of raising.
RecvFails_EofBreaks ==
    /\ pc = "recv"
    /\ \E outcome \in {"eof", "timeout", "error"} :
         /\ last_recv' = outcome
         /\ IF outcome = "eof"
            THEN /\ response' = DecodeResponse(data)
                 /\ pc' = PcAfterResponse
                 /\ UNCHANGED <<err, data, discarded>>
            ELSE /\ err' = CASE outcome = "timeout" -> "Timeout"
                             [] OTHER               -> "TransportError"
                 /\ discarded' = Len(data)
                 /\ data' = <<>>
                 /\ pc' = PcAfterError
                 /\ UNCHANGED response
    /\ UNCHANGED <<mode, axis, cfg, counts, banner, step, calls, request, sock,
                   line, log>>

\* Variant: the link closes itself when read_response raises.
RecvFails_ClosesOnError ==
    /\ pc = "recv"
    /\ \E outcome \in {"eof", "timeout", "error"} :
         /\ last_recv' = outcome
         /\ err' = CASE outcome = "eof"     -> "RemoteClosed"
                     [] outcome = "timeout" -> "Timeout"
                     [] OTHER               -> "TransportError"
    /\ discarded' = Len(data)
    /\ data' = <<>>
    /\ pc' = PcAfterError
    /\ sock' = CloseEffect(sock, log, FALSE).sock
    /\ log' = CloseEffect(sock, log, FALSE).log
    /\ UNCHANGED <<mode, axis, cfg, counts, banner, step, calls, request,
                   response, line>>

\* recv() returns b'', times out, or fails: read_response raises and the
\* bytes accumulated so far are lost with its frame.
RecvFails ==
    /\ pc = "recv"
    /\ \E outcome \in {"eof", "timeout", "error"} :
         /\ last_recv' = outcome
         /\ err' = CASE outcome = "eof"     -> "RemoteClosed"
                     [] outcome = "timeout" -> "Timeout"
                     [] OTHER               -> "TransportError"
    /\ discarded' = Len(data)
    /\ data' = <<>>
    /\ pc' = PcAfterError
    /\ UNCHANGED <<mode, axis, cfg, counts, banner, step, calls, request, sock,
                   response, line, log>>

\* _close() at the end of an operation.
Close ==
    /\ pc = "close"
    /\ \E raised \in BOOLEAN :
         LET c == CloseEffect(sock, log, raised)
         IN  /\ sock' = c.sock
             /\ log' = c.log
    /\ pc' = "done"
    /\ UNCHANGED <<mode, axis, cfg, counts, banner, waited, recvs,
                   step, calls, request, data, response, err,
                   line, last_recv, discarded>>

(* --------------------------- monitor loop ----------------------------- *)

\* Variant: the ValueError of a response that does not parse is not caught.
PrintStatus_InvalidStops ==
    /\ pc = "print"
    /\ IF IsNumeric(response)
       THEN line' = StatusLine(response) /\ pc' = "sleep" /\ UNCHANGED err
       ELSE err' = "ValueError" /\ pc' = "done" /\ UNCHANGED line
    /\ UNCHANGED <<mode, axis, cfg, counts, banner, waited, recvs,
                   step, calls, request, sock, data, response,
                   last_recv, discarded, log>>

\* The rest of the loop body of test_switch: parse the response, decode the
\* three switches and print the line (or the invalid-response line).
PrintStatus ==
    /\ pc = "print"
    /\ line' = StatusLine(response)
    /\ pc' = "sleep"
    /\ UNCHANGED <<mode, axis, cfg, counts, banner, waited, recvs,
                   step, calls, request, sock, data, response,
                   err, last_recv, discarded, log>>

\* time.sleep(1), then the next iteration.
Sleep ==
    /\ pc = "sleep"
    /\ TxCount(log) < MaxPolls
    /\ pc' = "call"
    /\ UNCHANGED <<mode, axis, cfg, counts, banner, waited, recvs,
                   step, calls, request, sock, data, response,
                   err, line, last_recv, discarded, log>>

\* Variant: test_switch does not catch KeyboardInterrupt either.
Interrupt_NotCaught ==
    /\ mode # "client"
    /\ pc \in {"call", "recv", "print", "sleep"}
    /\ pc' = "done"
    /\ err' = "KeyboardInterrupt"
    /\ data' = IF pc = "recv" THEN <<>> ELSE data
    /\ UNCHANGED <<mode, axis, cfg, counts, banner, waited, recvs,
                   step, calls, request, sock, response,
                   line, last_recv, discarded, log>>

\* KeyboardInterrupt.  test_switch catches it and goes on to _close();
\* elsewhere nothing catches it and the program ends.
Interrupt ==
    /\ mode # "client"
    /\ pc \in {"call", "recv", "print", "sleep"}
    /\ IF mode = "switch"
       THEN pc' = "close" /\ UNCHANGED err
       ELSE pc' = "done" /\ err' = "KeyboardInterrupt"
    /\ data' = IF pc = "recv" THEN <<>> ELSE data
    /\ UNCHANGED <<mode, axis, cfg, counts, banner, waited, recvs,
                   step, calls, request, sock, response,
                   line, last_recv, discarded, log>>

(* ------------------------------ client -------------------------------- *)

ClientSend ==
    /\ mode = "client"
    /\ pc = "idle"
    /\ calls < MaxCalls
    /\ \E c \in ClientCommands : request' = c
    /\ calls' = calls + 1
    /\ err' = "none"
    /\ pc' = "call"
    /\ data' = <<>>
    /\ response' = NoResponse
    /\ last_recv' = "none"
    /\ discarded' = 0
    /\ UNCHANGED <<mode, axis, cfg, counts, banner, waited, recvs,
                   step, sock, line, log>>

ClientClose ==
    /\ mode = "client"
    /\ pc = "idle"
    /\ calls < MaxCalls
    /\ \E raised \in BOOLEAN :
         LET c == CloseEffect(sock, log, raised)
         IN  /\ sock' = c.sock
             /\ log' = c.log
    /\ calls' = calls + 1
    /\ err' = "none"
    /\ last_recv' = "none"
    /\ discarded' = 0
    /\ UNCHANGED <<mode, axis, cfg, counts, banner, waited, recvs,
                   pc, step, request, data, response, line>>

Next ==
    \/ Connect
    \/ DrainBanner
    \/ SendNotConnected
    \/ SendAll
    \/ Recv /\ UNCHANGED clock
    \/ RecvFails /\ UNCHANGED clock
    \/ Close
    \/ PrintStatus
    \/ Sleep
    \/ Interrupt
    \/ ClientSend
    \/ ClientClose

Spec == Init /\ [][Next]_vars

(* ----------------- the decoder on register values 0..MaxReg ----------- *)

\* test_switch holding the response to a TS query, for each register value
\* the controller can answer with.
DecoderInit ==
    /\ mode = "switch"
    /\ axis \in Axes
    /\ cfg = DefaultConfig
    /\ counts = NoCounts
    /\ banner = <<>>
    /\ waited = 0
    /\ recvs = 0
    /\ pc = "print"
    /\ step = 1
    /\ calls = 0
    /\ request = <<>>
    /\ sock = "socket"
    /\ \E value \in 0..MaxReg :
         /\ data = <<" ">> \o NatText(value) \o <<CR, "\n", Terminator>>
         /\ response = DecodeResponse(data)
    /\ err = "none"
    /\ line = NoLine
    /\ last_recv = "bytes"
    /\ discarded = 0
    /\ log = <<Tx(WireBytes(SwitchCommand(axis))), Rx>>

SpecDecoder == DecoderInit /\ [][PrintStatus]_vars

(* ------------- the unit converter on the bounded configurations -------- *)

\* A connected link about to drain its banner, for a caller that then runs
\* test_stepper_motor with every travel and microstepping divisor within
\* the bounds.
ConverterInit ==
    /\ mode = "stepper"
    /\ axis = "A"
    /\ cfg \in ConverterConfigs
    /\ counts = NoCounts
    /\ banner \in Banners
    /\ waited = 0
    /\ recvs = 0
    /\ pc = "banner"
    /\ step = 1
    /\ calls = 0
    /\ request = <<>>
    /\ sock = "socket"
    /\ data = <<>>
    /\ response = NoResponse
    /\ err = "none"
    /\ line = NoLine
    /\ last_recv = "none"
    /\ discarded = 0
    /\ log = <<>>

SpecConverter == ConverterInit /\ [][DrainBanner \/ SendAll]_vars

(* ---------------------- read_response against the clock --------------- *)

\* recv() returns bytes after waiting less than the timeout.
TimedRecv ==
    /\ Recv
    /\ \E w \in RecvWaits : waited' = waited + w
    /\ recvs' = recvs + 1

\* recv() returns b'' or fails before the timeout, or times out at it.
TimedRecvFails ==
    /\ RecvFails
    /\ \E w \in RecvWaits :
         waited' = waited + IF last_recv' = "timeout" THEN TimeoutTicks ELSE w
    /\ recvs' = recvs + 1

\* test_switch with its first TS query transmitted and read_response entered.
ReadInit ==
    /\ mode = "switch"
    /\ axis \in Axes
    /\ cfg = DefaultConfig
    /\ counts = NoCounts
    /\ banner = <<>>
    /\ waited = 0
    /\ recvs = 0
    /\ pc = "recv"
    /\ step = 1
    /\ calls = 0
    /\ request = <<>>
    /\ sock = "socket"
    /\ data = <<>>
    /\ response = NoResponse
    /\ err = "none"
    /\ line = NoLine
    /\ last_recv = "none"
    /\ discarded = 0
    /\ log = <<Tx(WireBytes(SwitchCommand(axis)))>>

SpecRead == ReadInit /\ [][TimedRecv \/ TimedRecvFails]_vars

(* ------------------------------ properties ---------------------------- *)

Last(lg) == lg[Len(lg)]

CloseCount(lg) == Len(SelectSeq(lg, LAMBDA e : e.t = "close"))

\* The operation was dispatched and ran to its end without an exception.
EndedNormally == pc = "done" /\ err = "none"

C1_Counts(value, microsteps) ==
    LET n == value * 200 * microsteps
    IN  IF n >= 0 THEN n \div 360 ELSE -((-n) \div 360)

\* The ten transmissions the claim lists, as they go on the wire.
C1_Wire(ax, c) ==
    LET sp == IntText(C1_Counts(c.speed_deg, c.microsteps))
        ac == IntText(C1_Counts(c.accel_deg, c.microsteps))
        pr == IntText(C1_Counts(c.degrees, c.microsteps))
        mt == IF c.active_high THEN <<"-", "2">> ELSE <<"2">>
    IN  << <<"S", "T", " ", ax, ";", "\r">>,
           <<"M", "T", ax, "=">> \o mt \o <<";", "\r">>,
           <<"K", "S", ax, "=">> \o IntText(c.smoothing) \o <<";", "\r">>,
           <<"S", "H", " ", ax, ";", "\r">>,
           <<"S", "P", ax, "=">> \o sp \o <<";", "\r">>,
           <<"A", "C", ax, "=">> \o ac \o <<"\r">>,
           <<"D", "C", ax, "=">> \o ac \o <<"\r">>,
           <<"P", "R", ax, "=">> \o pr \o <<";", "\r">>,
           <<"B", "G", " ", ax, ";", "\r">>,
           <<"M", "C", " ", ax, ";", "\r">> >>

\* The register values of the default move: 720 deg, 180 deg/s, 360 deg/s^2.
C1_DefaultValues ==
    << <<"S", "P", axis, "=", "1", "0", "0", ";", "\r">>,
       <<"A", "C", axis, "=", "2", "0", "0", "\r">>,
       <<"D", "C", axis, "=", "2", "0", "0", "\r">>,
       <<"P", "R", axis, "=", "4", "0", "0", ";", "\r">> >>

\* C1: in test_stepper_motor the k-th transmission is the k-th of ST, MT, KS,
\* SH, SP, AC, DC, PR, BG, MC with the converted values, it follows the
\* response to the (k-1)-th, the link is closed only after the response to
\* MC, and a run that ends normally has made all ten and closed.
C1_MoveSequence ==
    mode = "stepper" =>
      /\ \A i \in 1..Len(log) :
           /\ log[i].t = "tx" =>
                /\ i % 2 = 1
                /\ (i + 1) \div 2 <= 10
                /\ log[i].bytes = C1_Wire(axis, cfg)[(i + 1) \div 2]
                /\ i > 1 => log[i - 1].t = "rx"
           /\ log[i].t = "rx" => i > 1 /\ log[i - 1].t = "tx"
           /\ (log[i].t = "close" /\ err # "ConnectionFailed") =>
                /\ i = 21
                /\ log[20].t = "rx"
                /\ log[19].bytes = <<"M", "C", " ", axis, ";", "\r">>
      /\ EndedNormally =>
           /\ Len(log) = 21
           /\ \A k \in 1..10 : log[2 * k - 1] = Tx(C1_Wire(axis, cfg)[k])
           /\ \A k \in 1..10 : log[2 * k].t = "rx"
           /\ log[21].t = "close"
           /\ sock = "None"
           /\ cfg = DefaultConfig =>
                <<log[9].bytes, log[11].bytes, log[13].bytes, log[15].bytes>>
                  = C1_DefaultValues

C1_Witness ==
    /\ mode = "stepper"
    /\ EndedNormally
    /\ ~cfg.active_high
    /\ Len(log) = 21
    /\ log[3].bytes = <<"M", "T", axis, "=", "2", ";", "\r">>

C2_Significant(d) ==
    SelectSeq(d, LAMBDA c : c # NonAscii /\ c \notin Whitespace)

C2_Trimmed(s) ==
    s = <<>> \/ (s[1] \notin Whitespace /\ s[Len(s)] \notin Whitespace)

\* A response has been returned and is held by the caller.
Returned == response # NoResponse

\* C2 as stated: every returned response is free of surrounding whitespace
\* and does not end with the terminator.
C2_NoTrailingTerminator ==
    Returned => C2_Trimmed(response) /\ ~EndsWithTerminator(response)

\* C2 amended: every returned response is free of surrounding whitespace;
\* it ends with the terminator exactly when the last two non-blank
\* characters read were both terminators, of which one has been removed.
C2_TrimmedOneTerminatorRemoved ==
    Returned =>
      /\ HasTerminator(data)
      /\ C2_Trimmed(response)
      /\ EndsWithTerminator(response) <=>
           LET g == C2_Significant(data)
           IN  Len(g) >= 2 /\ g[Len(g)] = ":" /\ g[Len(g) - 1] = ":"

C2_Witness ==
    /\ data = <<"K", ":", "\r", ":">>
    /\ response = <<"K", ":">>

\* C3: a send_command step taken with the handle absent raises NotConnected,
\* transmits nothing, reads nothing and leaves the handle absent.
C3_NotConnected ==
    [][(pc = "call" /\ sock = "None") =>
         /\ err' = "NotConnected"
         /\ sock' = "None"
         /\ log' = log
         /\ last_recv' = last_recv
         /\ data' = data
         /\ response' = response
         /\ pc' = PcAfterError]_vars

C3_Witness ==
    /\ err = "NotConnected"
    /\ sock = "None"
    /\ CloseCount(log) = 1
    /\ last_recv = "none"

TransportErrors == {"Timeout", "RemoteClosed", "TransportError"}

\* An operation of __main__ was dispatched and has ended.
OperationEnded == mode # "client" /\ pc = "done" /\ err # "ConnectionFailed"

\* C4 as stated: however a dispatched operation ends, the handle is absent.
C4_AlwaysTornDown ==
    (OperationEnded /\ err \in {"none"} \cup TransportErrors) => sock = "None"

\* C4 amended: a dispatched operation that ends normally has closed the link
\* as its last socket operation and the handle is absent; one that ends with
\* an exception of one of its commands has not closed it, and the handle is
\* still present.
C4_TornDownOnNormalEnd ==
    OperationEnded =>
      /\ err = "none" => sock = "None" /\ log # <<>> /\ Last(log).t = "close"
      /\ err \in TransportErrors => sock = "socket" /\ CloseCount(log) = 0

C4_Witness ==
    /\ mode = "switch"
    /\ pc = "done"
    /\ err = "Timeout"
    /\ sock = "socket"
    /\ TxCount(log) = 2

\* A step that runs _close(): at the end of an operation, by the client, or
\* in the failure path of _connect.
C5_OperationClose == pc = "close" /\ pc' = "done"
C5_ClientClose ==
    mode = "client" /\ pc = "idle" /\ pc' = "idle" /\ calls' = calls + 1
C5_ConnectClose ==
    pc \in {"construct", "banner"} /\ err' = "ConnectionFailed"

\* C5: after every _close() the handle is absent, whether or not the socket's
\* close() raised; a _close() on an absent handle raises nothing and does
\* nothing to the socket; the socket is closed at most once.
C5_CloseIdempotent ==
    /\ [](CloseCount(log) <= 1 /\ (CloseCount(log) = 1 => sock = "None"))
    /\ [][(C5_OperationClose \/ C5_ClientClose \/ C5_ConnectClose) =>
            /\ sock' = "None"
            /\ (sock = "None" /\ ~C5_ConnectClose) => log' = log
            /\ C5_ClientClose => err' = "none"]_vars

C5_Witness ==
    /\ mode = "client"
    /\ calls = 2
    /\ request = <<>>
    /\ err = "none"
    /\ log = <<Closed(TRUE)>>
    /\ sock = "None"

\* Text without its leading and trailing whitespace, by position.
C6_Trim(s) ==
    LET keep == {i \in 1..Len(s) : s[i] \notin Whitespace}
    IN  IF keep = {} THEN <<>>
        ELSE SubSeq(s, CHOOSE i \in keep : \A j \in keep : i <= j,
                       CHOOSE i \in keep : \A j \in keep : i >= j)

\* C6: the returned response is the trimmed text with exactly one trailing
\* terminator removed and trimmed again, or the trimmed text itself when it
\* does not end with the terminator; "OK:" gives "OK", "OK::" gives "OK:".
C6_StrippedOnce ==
    Returned =>
      LET t == C6_Trim(SelectSeq(data, LAMBDA c : c # NonAscii))
      IN  /\ (t # <<>> /\ t[Len(t)] = ":") =>
                response = C6_Trim(SubSeq(t, 1, Len(t) - 1))
          /\ ~(t # <<>> /\ t[Len(t)] = ":") => response = t
          /\ data = <<"O", "K", ":">> => response = <<"O", "K">>
          /\ data = <<"O", "K", ":", ":">> => response = <<"O", "K", ":">>

C6_Witness ==
    /\ data = <<"O", "K", ":", ":">>
    /\ response = <<"O", "K", ":">>

C7_Wire(ax) == <<"M", "O", " ", ax, ";", "\r">>

\* C7: disable_stepper_motor transmits nothing but one 'MO <axis>', closes the
\* link only after its response has been read, and a run that ends normally
\* has done exactly that: one transmission, its response, the close.
C7_DisableSequence ==
    mode = "disable" =>
      /\ \A i \in 1..Len(log) :
           /\ log[i].t = "tx" => i = 1 /\ log[i].bytes = C7_Wire(axis)
           /\ log[i].t = "rx" => i = 2
           /\ (log[i].t = "close" /\ err # "ConnectionFailed") => i = 3
      /\ EndedNormally =>
           /\ Len(log) = 3
           /\ log[1] = Tx(C7_Wire(axis))
           /\ log[2].t = "rx"
           /\ log[3].t = "close"
           /\ sock = "None"

C7_Witness ==
    /\ mode = "disable"
    /\ EndedNormally
    /\ log[1].bytes = <<"M", "O", " ", "H", ";", "\r">>
    /\ sock = "None"

\* The exchange whose recv() ended as last_recv says has failed: no response
\* is held, nothing of the buffer is kept and the command is still
\* unanswered.
ExchangeFailed ==
    /\ response = NoResponse
    /\ data = <<>>
    /\ log # <<>>
    /\ Last(log).t = "tx"
    /\ pc = PcAfterError

\* C8: when recv() times out before a chunk with the terminator, the exchange
\* fails with Timeout, whatever had been accumulated.
C8_TimeoutRaises ==
    last_recv = "timeout" => err = "Timeout" /\ ExchangeFailed

C8_Witness ==
    /\ last_recv = "timeout"
    /\ err = "Timeout"
    /\ discarded = 3
    /\ response = NoResponse

\* C9: when recv() returns no bytes before a chunk with the terminator, the
\* exchange fails with RemoteClosed, whatever had been accumulated.
C9_RemoteClosedRaises ==
    last_recv = "eof" => err = "RemoteClosed" /\ ExchangeFailed

C9_Witness ==
    /\ last_recv = "eof"
    /\ err = "RemoteClosed"
    /\ discarded = 2
    /\ response = NoResponse

\* Bit k of v is clear, for a bit of weight w = 2^k.
C10_BitClear(v, w) == v % (2 * w) < w

C10_State(clear) == IF clear THEN "ON" ELSE "OFF"

\* C10: the line printed for register value v reports Home from bit 1,
\* Reverse-limit from bit 2 and Forward-limit from bit 3, ON when the bit is
\* clear and OFF when it is set; 0 gives ON/ON/ON and 14 gives OFF/OFF/OFF.
C10_Decoder ==
    pc = "sleep" =>
      /\ line.kind = "status"
      /\ NatText(line.value) = response
      /\ line.home = C10_State(C10_BitClear(line.value, 2))
      /\ line.rev = C10_State(C10_BitClear(line.value, 4))
      /\ line.fwd = C10_State(C10_BitClear(line.value, 8))
      /\ line.value = 0 => <<line.home, line.rev, line.fwd>> = <<"ON", "ON", "ON">>
      /\ line.value = 14 =>
           <<line.home, line.rev, line.fwd>> = <<"OFF", "OFF", "OFF">>

C10_Witness ==
    /\ pc = "sleep"
    /\ line.value = 14
    /\ <<line.home, line.rev, line.fwd>> = <<"OFF", "OFF", "OFF">>

\* The first command, ST, has been handed to send_command: the three
\* conversions have been made and the commands that program them are fixed.
C11_Converted == mode = "stepper" /\ pc = "recv" /\ step = 1

\* d * (200 * m) / 360 truncated toward zero, in exact arithmetic.
C11_Truncated(d, m) ==
    LET n == Abs(d) * 200 * m
    IN  IF d < 0 THEN -(n \div 360) ELSE n \div 360

\* C11 as stated: for every divisor m and integer d the SP, AC, DC and PR
\* commands carry d * (200 * m) / 360 truncated toward zero, for the speed,
\* the acceleration and the travel alike.
C11_ExactTruncation ==
    C11_Converted =>
      LET cmds == MoveCommands(axis, cfg, counts)
          m    == cfg.microsteps
          sp   == IntText(C11_Truncated(cfg.speed_deg, m))
          ac   == IntText(C11_Truncated(cfg.accel_deg, m))
          pr   == IntText(C11_Truncated(cfg.degrees, m))
      IN  /\ cmds[5] = <<"S", "P", axis, "=">> \o sp \o <<";">>
          /\ cmds[6] = <<"A", "C", axis, "=">> \o ac
          /\ cmds[7] = <<"D", "C", axis, "=">> \o ac
          /\ cmds[8] = <<"P", "R", axis, "=">> \o pr \o <<";">>

\* The response to the first command sent on the link is held.
C12_FirstResponse == Returned /\ TxCount(log) = 1 /\ Last(log).t = "rx"

\* C12 as stated: the response returned for the first send_command holds no
\* banner byte, however long the banner and however it arrives.
C12_BannerDrained ==
    C12_FirstResponse => \A i \in 1..Len(response) : response[i] # BannerByte

\* A step in which _connect fails: the constructor raises.
C13_ConnectFails == pc \in {"construct", "banner"} /\ err' = "ConnectionFailed"

\* C13: when _connect fails, the constructor ends with the error, a socket
\* that had been opened is closed, nothing has been transmitted and the
\* handle is absent; from then on the handle stays absent and no command is
\* transmitted on the link.
C13_FailedConnect ==
    /\ [][C13_ConnectFails =>
            /\ sock' = "None"
            /\ pc' = PcAfterError
            /\ TxCount(log') = 0
            /\ sock = "socket" => CloseCount(log') = 1]_vars
    /\ [](err = "ConnectionFailed" => sock = "None" /\ TxCount(log) = 0)
    /\ [][(pc # "construct" /\ sock = "None") =>
            sock' = "None" /\ TxCount(log') = TxCount(log)]_vars

C13_Witness ==
    /\ err = "ConnectionFailed"
    /\ sock = "None"
    /\ banner # <<>>
    /\ log = <<Closed(FALSE)>>

\* A step that puts a command on the wire.
C14_Transmits == TxCount(log') # TxCount(log)

\* C14: a command is transmitted only by a send_command that is not reading,
\* one transmission at a time, and the same call then reads its response
\* from an empty buffer; while it reads, the last socket operation is that
\* transmission, and the read ends only by returning the response, by
\* raising, or by the interrupt.
C14_OneInFlight ==
    /\ [][C14_Transmits =>
            /\ pc = "call"
            /\ pc' = "recv"
            /\ log' = Append(log, Tx(WireBytes(CurrentCommand)))
            /\ data' = <<>>
            /\ last_recv' = "none"]_vars
    /\ [](pc = "recv" => log # <<>> /\ Last(log).t = "tx")
    /\ [][(pc = "recv" /\ pc' # "recv") =>
            \/ log' = Append(log, Rx) /\ last_recv' = "bytes"
            \/ log' = log /\ err' \in TransportErrors /\ pc' = PcAfterError
            \/ log' = log /\ mode # "client" /\ last_recv' = last_recv]_vars
    /\ [][last_recv' \notin {"none", last_recv} => pc = "recv"]_vars

C14_Witness ==
    /\ mode = "switch"
    /\ pc = "recv"
    /\ Len(log) = 3
    /\ log[2] = Rx
    /\ log[3] = Tx(<<"T", "S", " ", "H", "\r">>)
    /\ data = <<"4">>

\* The mnemonics of the ten commands of the move, in the order of the claim.
C15_Mnemonics ==
    << <<"S", "T">>, <<"M", "T">>, <<"K", "S">>, <<"S", "H">>, <<"S", "P">>,
       <<"A", "C">>, <<"D", "C">>, <<"P", "R">>, <<"B", "G">>, <<"M", "C">> >>

C15_Mnemonic(bytes) == SubSeq(bytes, 1, 2)

\* The command of step k of test_stepper_motor fails in this step.
C15_StepFails ==
    /\ mode = "stepper"
    /\ pc \in {"call", "recv"}
    /\ err' \in TransportErrors

\* C15: when the command of step k of test_stepper_motor fails, the error
\* reaches the caller and the operation is over: commands 1..k-1 were
\* answered, command k was transmitted at most once, and nothing is
\* transmitted afterwards.  BG is transmitted only as the ninth command,
\* after ST, MT, KS, SH, SP, AC, DC and PR have each been answered.
C15_AbortsOnFailure ==
    /\ [][C15_StepFails =>
            /\ pc' = "done"
            /\ step' = step
            /\ log' = log]_vars
    /\ []((mode = "stepper" /\ err \in TransportErrors) =>
            /\ pc = "done"
            /\ TxCount(log) \in {step - 1, step}
            /\ Len(log) = TxCount(log) + (step - 1)
            /\ \A i \in 1..Len(log) :
                 log[i].t = IF i % 2 = 1 THEN "tx" ELSE "rx")
    /\ [][(mode = "stepper" /\ err \in TransportErrors) => log' = log]_vars
    /\ [](mode = "stepper" =>
            \A i \in 1..Len(log) :
              (log[i].t = "tx" /\ C15_Mnemonic(log[i].bytes) = <<"B", "G">>) =>
                /\ i = 17
                /\ \A k \in 1..8 :
                     /\ log[2 * k - 1].t = "tx"
                     /\ C15_Mnemonic(log[2 * k - 1].bytes) = C15_Mnemonics[k]
                     /\ log[2 * k] = Rx)

C15_Witness ==
    /\ mode = "stepper"
    /\ pc = "done"
    /\ err = "RemoteClosed"
    /\ step = 8
    /\ Len(log) = 15
    /\ C15_Mnemonic(log[15].bytes) = <<"P", "R">>

\* The text is a number: one or more decimal digits.
C16_Numeric(s) ==
    /\ Len(s) > 0
    /\ \A i \in 1..Len(s) :
         s[i] \in {"0", "1", "2", "3", "4", "5", "6", "7", "8", "9"}

C17_LoopPoints == {"call", "recv", "print", "sleep"}

\* The monitor loop ended other than by an error of the link.
C17_Stopped ==
    /\ mode = "switch"
    /\ pc \in {"close", "done"}
    /\ err \notin TransportErrors \cup {"ConnectionFailed"}

\* C17: test_switch leaves its loop without an error only by the interrupt,
\* which is taken at every point of the loop; it then transmits nothing
\* more, runs _close() as its next step, and ends with the handle absent and
\* the close as the last socket operation.
C17_InterruptCloses ==
    /\ []((mode = "switch" /\ pc \in C17_LoopPoints) => ENABLED Interrupt)
    /\ [](C17_Stopped => err = "none")
    /\ [][C17_Stopped => TxCount(log') = TxCount(log)]_vars
    /\ [][(C17_Stopped /\ pc = "close") =>
            /\ pc' = "done"
            /\ sock' = "None"
            /\ CloseCount(log') = 1]_vars
    /\ []((C17_Stopped /\ pc = "done") =>
            /\ sock = "None"
            /\ Last(log).t = "close")

C17_Witness ==
    /\ mode = "switch"
    /\ pc = "done"
    /\ err = "none"
    /\ sock = "None"
    /\ Len(log) = 2
    /\ log[1].t = "tx"
    /\ log[2] = Closed(FALSE)

\* C18 as stated: the wait of a read_response is bounded by the read
\* timeout, so one that has waited that long has ended.
C18_BoundedWait == pc = "recv" => waited < TimeoutTicks

\* C18 amended: each recv() of read_response blocks for at most the read
\* timeout, and one that times out ends the read with Timeout; the read ends
\* only on a chunk holding the terminator or on a recv() that fails, and a
\* chunk without the terminator keeps it reading however long it has
\* waited in all, so the whole wait is bounded only by the timeout times
\* the number of recv() calls.
C18_EachRecvBounded ==
    /\ [][/\ recvs' = recvs + 1
          /\ waited' - waited <= TimeoutTicks
          /\ last_recv' = "timeout" =>
               waited' - waited = TimeoutTicks /\ err' = "Timeout"]_vars
    /\ [](waited <= TimeoutTicks * recvs)
    /\ [][pc' # "recv" =>
            \/ last_recv' = "bytes" /\ HasTerminator(data') /\ err' = "none"
            \/ last_recv' # "bytes" /\ err' \in TransportErrors]_vars
    /\ [][(last_recv' = "bytes" /\ ~HasTerminator(data')) => pc' = "recv"]_vars

C18_Witness ==
    /\ pc = "recv"
    /\ recvs = 3
    /\ waited > TimeoutTicks
    /\ ~HasTerminator(data)
    /\ Len(data) = 3

C19_HasColon(s) == \E i \in 1..Len(s) : s[i] = ":"

\* d is s followed by one non-empty chunk.
C19_Extends(d, s) ==
    /\ Len(d) > Len(s)
    /\ SubSeq(d, 1, Len(s)) = s

\* The text the claims give for a buffer: non-ASCII bytes dropped, trimmed,
\* one trailing ':' removed and trimmed again.
C19_Text(d) ==
    LET t == C6_Trim(SelectSeq(d, LAMBDA c : c # NonAscii))
    IN  IF t # <<>> /\ t[Len(t)] = ":"
        THEN C6_Trim(SubSeq(t, 1, Len(t) - 1)) ELSE t

\* A step in which a recv() of read_response returns a chunk: the read goes
\* on, or it returns and the exchange is complete.
C19_RecvReturnsBytes ==
    /\ pc = "recv"
    /\ last_recv' = "bytes"
    /\ pc' = "recv" \/ log' # log

\* C19: a recv() of read_response appends its chunk to the buffer; the read
\* goes on exactly while no chunk has held ':', and returns at the first
\* chunk that holds one, wherever in the chunk it is.  The response is
\* decoded from the whole buffer, bytes after the ':' included (the chunks
\* "O" then ":K" give "O:K"), and the next read_response starts from an
\* empty buffer.
C19_StopsAtFirstTerminator ==
    /\ [](pc = "recv" => ~C19_HasColon(data))
    /\ [][C19_RecvReturnsBytes =>
            IF pc' = "recv"
            THEN /\ C19_Extends(data', data)
                 /\ ~C19_HasColon(data')
                 /\ log' = log
            ELSE /\ log' = Append(log, Rx)
                 /\ KeepsResponse =>
                      /\ C19_Extends(data', data)
                      /\ C19_HasColon(data')
                      /\ response' = C19_Text(data')]_vars
    /\ []((Returned /\ data = <<"O", ":", "K">>) =>
            response = <<"O", ":", "K">>)
    /\ [][C14_Transmits => data' = <<>> /\ response' = NoResponse]_vars

C19_Witness ==
    /\ mode = "client"
    /\ Returned
    /\ data = <<"O", ":", "K">>
    /\ response = <<"O", ":", "K">>
    /\ Last(log) = Rx

\* A step in which send_command raises an error of the link.
C20_SendCommandFails == pc \in {"call", "recv"} /\ err' \in TransportErrors

\* C20: a send_command that fails on the link leaves the handle present and
\* closes nothing; the handle becomes absent only in a step that runs
\* _close() (at the end of an operation, by the client, or in a failed
\* _connect); so the client's next send_command does socket I/O, a
\* transmission or a failed one, and never raises NotConnected.
C20_HandleKeptOnError ==
    /\ [][C20_SendCommandFails =>
            /\ sock = "socket"
            /\ sock' = "socket"
            /\ log' = log]_vars
    /\ [](err \in TransportErrors => sock = "socket" /\ CloseCount(log) = 0)
    /\ [][(sock = "socket" /\ sock' = "None") =>
            C5_OperationClose \/ C5_ClientClose \/ C5_ConnectClose]_vars
    /\ [][(mode = "client" /\ pc = "call" /\ sock = "socket") =>
            C14_Transmits \/ err' = "TransportError"]_vars

C20_Witness ==
    /\ mode = "client"
    /\ calls = 2
    /\ pc = "recv"
    /\ sock = "socket"
    /\ Len(log) = 2
    /\ log[1].t = "tx"
    /\ log[2].t = "tx"

====
